---- MODULE Spec2Model ----
(***************************************************************************)
(* Model of src/src/s3-client.cts: the Client class, a wrapper that        *)
(* composes requests against an object storage gateway (S3Client.send and  *)
(* lib-storage's Upload).  Each invocation of a public operation is a      *)
(* little process; several invocations may be in flight on one client at   *)
(* once (JavaScript promises), and the gateway answers the outstanding     *)
(* requests in any order.                                                  *)
(*                                                                         *)
(* One step of the model is either a call of a public operation (the code  *)
(* that runs synchronously up to the first await, requests it issues       *)
(* included) or the arrival of a gateway response together with the        *)
(* promise callbacks and the continuation it triggers.  The gateway        *)
(* handles a request atomically at the moment it answers it.               *)
(***************************************************************************)
EXTENDS Integers, Sequences, FiniteSets, TLC

\* ---------------------------------------------------------------- bounds
\* Number of invocations of public operations made on the client.
MaxInv == 2
\* Number of distinct object contents.
NumBodies == 2

\* s3-client.cts:164  the only status code delete accepts
NoContent == 204

Inv == 1..MaxInv
Bodies == 1..NumBodies
Buckets == {"b1"}
Keys == {"k1"}
\* status codes a delete-object response may carry (200 stands for any non-204)
StatusCodes == {200, NoContent}

Ops == {"createBucket", "deleteBucket", "upload", "download", "delete"}
RequestKinds == {"create-bucket", "remove-public-access-block", "delete-bucket",
                 "start-upload", "set-object-acl", "get-object", "delete-object"}

VARIABLES
    config,     \* this.config: the S3Config the client was constructed with
    store,      \* the remote store behind the gateway
    inv,        \* inv[i]: operation and arguments of invocation i
    pc,         \* pc[i]: where invocation i is suspended
    reqs,       \* reqs[i]: the gateway requests invocation i issued, in order
    res,        \* res[i]: the local `res` of createBucket / upload
    uploadClient, \* uploadClient[i]: the params of the Upload built by upload (line 116)
    bytes,      \* bytes[i]: the promise `bytes` of delete (line 158)
    promise,    \* promise[i]: the promise the operation returned to its caller
    unhandled,  \* unhandled[i]: `bytes` rejected while nothing was listening
    snap,       \* snap[i]: content removed by i's delete-object (0: none, -1: not yet)
    interfered  \* interfered[i]: the object changed between i's get-object and delete-object

vars == <<config, store, inv, pc, reqs, res, uploadClient, bytes, promise, unhandled,
          snap, interfered>>

\* ------------------------------------------------------------- values
None == [type |-> "none"]
Pending == [state |-> "pending", value |-> None]
Resolved(v) == [state |-> "resolved", value |-> v]
Rejected(r) == [state |-> "rejected", value |-> r]
NoPromise == [state |-> "none", value |-> None]

\* the error object the gateway rejects request `kind` of invocation i with
GatewayError(i, kind) == [type |-> "GatewayError", inv |-> i, req |-> kind]
\* the output object the gateway resolves request `kind` of invocation i with
GatewayOutput(i, kind) == [type |-> "GatewayOutput", inv |-> i, req |-> kind]
\* res.Body.transformToByteArray(): the streamed body drained into one array
transformToByteArray(body) == [type |-> "Uint8Array", data |-> body]

\* ------------------------------------------------------------ gateway
\* The store: the bucket ("absent", "blocked": exists with its public access
\* block, "open": block removed), the object under the key (0: absent) and
\* whether set-object-acl has been applied to it.
StoreStates ==
    {s \in [bucket : {"absent", "blocked", "open"}, obj : 0..NumBodies, acl : BOOLEAN] :
        /\ s.obj # 0 => s.bucket # "absent"
        /\ s.acl => s.obj # 0}

Failure(s) == [ok |-> FALSE, store |-> s, status |-> 0, data |-> 0]
Success(s, status, data) == [ok |-> TRUE, store |-> s, status |-> status, data |-> data]

\* The answers the gateway may give to a request in store state s.  Every
\* request may fail (network, permission, validation) and then changes nothing.
Gateway(kind, s, body) ==
    {Failure(s)} \cup
    CASE kind = "create-bucket" ->
            IF s.bucket = "absent"
            THEN {Success([s EXCEPT !.bucket = "blocked"], 200, 0)} ELSE {}
      [] kind = "remove-public-access-block" ->
            IF s.bucket # "absent"
            THEN {Success([s EXCEPT !.bucket = "open"], 204, 0)} ELSE {}
      [] kind = "delete-bucket" ->
            IF s.bucket # "absent" /\ s.obj = 0
            THEN {Success([s EXCEPT !.bucket = "absent"], 204, 0)} ELSE {}
      [] kind = "start-upload" ->
            IF s.bucket # "absent"
            THEN {Success([s EXCEPT !.obj = body, !.acl = FALSE], 200, 0)} ELSE {}
      [] kind = "set-object-acl" ->
            IF s.obj # 0
            THEN {Success([s EXCEPT !.acl = TRUE], 200, 0)} ELSE {}
      [] kind = "get-object" ->
            IF s.obj # 0
            THEN {Success(s, 200, s.obj)} ELSE {}
      [] kind = "delete-object" ->
            IF s.bucket # "absent"
            THEN {Success([s EXCEPT !.obj = 0, !.acl = FALSE], c, 0) : c \in StatusCodes}
            ELSE {}

\* ----------------------------------------------------------- requests
\* a request as the gateway sees it: its kind, whether it was answered ("ok",
\* "err") and, once answered, the status code and the content of the response
\* (and, for a transfer, the encryption mode it was started with)
Request(kind) == [kind |-> kind, status |-> "pending", code |-> 0, data |-> 0, sse |-> ""]

\* s3.send(cmd) / uploadClient.done(): one more request of invocation i in flight
Send(rs, kind) == Append(rs, Request(kind))

\* the response to the request of that kind has arrived
Settle(rs, kind, out) ==
    [n \in 1..Len(rs) |->
        IF rs[n].kind = kind /\ rs[n].status = "pending"
        THEN [rs[n] EXCEPT !.status = IF out.ok THEN "ok" ELSE "err",
                           !.code = out.status, !.data = out.data]
        ELSE rs[n]]

IsPending(i, kind) ==
    \E n \in 1..Len(reqs[i]) : reqs[i][n].kind = kind /\ reqs[i][n].status = "pending"

Answered(i, kind) ==
    \E n \in 1..Len(reqs[i]) : reqs[i][n].kind = kind /\ reqs[i][n].status = "ok"

\* History of the store kept for the statements about delete: a request of
\* invocation j that changes the object interferes with every delete of which
\* exactly one of get-object and delete-object has been answered.
Interfere(j, s, t) ==
    [k \in Inv |->
        \/ interfered[k]
        \/ /\ k # j
           /\ s.obj # t.obj
           /\ inv[k].op = "delete"
           /\ Answered(k, "get-object") # Answered(k, "delete-object")]

\* line 42: ServerSideEncryptionOptions
ServerSideEncryptionOptions == {"AES256", "aws:kms", "aws:kms:dsse"}
\* line 54: serverSideEncryption?: the option may be left out
Undefined == "undefined"

Idle == [op |-> "idle", bucket |-> "", key |-> "", body |-> 0, cb |-> FALSE, sse |-> Undefined]

\* invocations are numbered in the order in which they are made
CanCall(i) ==
    /\ inv[i].op = "idle"
    /\ i > 1 => inv[i - 1].op # "idle"

\* lines 71-74, 80-81: the S3Config given to the constructor
S3Config ==
    [region |-> "eu-central-1",
     credentials |-> [accessKeyId |-> "KEYID", secretAccessKey |-> "SECRET_KEY"]]

Init ==
    /\ config = S3Config
    /\ store \in StoreStates
    /\ uploadClient = [i \in Inv |-> None]
    /\ inv = [i \in Inv |-> Idle]
    /\ pc = [i \in Inv |-> "idle"]
    /\ reqs = [i \in Inv |-> <<>>]
    /\ res = [i \in Inv |-> None]
    /\ bytes = [i \in Inv |-> NoPromise]
    /\ promise = [i \in Inv |-> NoPromise]
    /\ unhandled = [i \in Inv |-> FALSE]
    /\ snap = [i \in Inv |-> -1]
    /\ interfered = [i \in Inv |-> FALSE]

\* ----------------------------------------------------- error wrapping
\* the rejection payloads {message: ..., error: e} the catch callbacks build
Wrapped(message, e) == [message |-> message, error |-> e]

\* line 99
CreateBucketMessage == <<"Could not create new bucket.">>
\* line 106
DeletePABMessage(bucketName) ==
    <<"Could not delete public access block from bucket :'", bucketName, "'.">>
\* line 134
PutACLMessage(key, bucket) ==
    <<"Could not set access level for object: '", key, "' in bucket: '", bucket, "'">>
\* line 148
GetObjectMessage(key, bucket) ==
    <<"Could not get object: '", key, "' in bucket: '", bucket, "'">>
\* line 170
DeleteObjectMessage(key, bucket) ==
    <<"Could not delete object: '", key, "' in bucket: '", bucket, "'">>
\* line 165: new Error(`Unexpected http statuscode '${code}'. Expected 204.`)
StatusError(code) ==
    [type |-> "Error",
     message |-> <<"Unexpected http statuscode '", ToString(code), "'. Expected 204.">>]
\* UnexpectedStatus accepting every 2xx status code
UnexpectedStatus_any2xx(code) == code < 200 \/ code >= 300
\* line 164: res.$metadata.httpStatusCode != 204
UnexpectedStatus(code) == code # NoContent
\* line 173: "Error deleting object: " + (e as Error).message
ErrorDeletingMessage(e) ==
    <<"Error deleting object: ">> \o
        (IF "message" \in DOMAIN e THEN e.message ELSE <<"undefined">>)
\* line 126: EventEmitter.on throws when the listener is not a function
ListenerTypeError == [type |-> "TypeError", argument |-> "listener"]

\* ----------------------------------------------------- promise chains
\* CreateChain with a catch that returns the payload instead of rejecting with it
CreateChain_swallowing(i, out) ==
    IF out.ok THEN Resolved(GatewayOutput(i, "create-bucket"))
    ELSE Resolved(Wrapped(CreateBucketMessage, GatewayError(i, "create-bucket")))

\* lines 96-100: s3.send(createCmd).then((response) => response).catch(...)
CreateChain(i, out) ==
    IF out.ok THEN Resolved(GatewayOutput(i, "create-bucket"))
    ELSE Rejected(Wrapped(CreateBucketMessage, GatewayError(i, "create-bucket")))

\* DeletePABChain with .then((response) => response) in place of .then(() => res)
DeletePABChain_ownResponse(i, bucketName, r, out) ==
    IF out.ok THEN Resolved(GatewayOutput(i, "remove-public-access-block"))
    ELSE Rejected(Wrapped(DeletePABMessage(bucketName),
                          GatewayError(i, "remove-public-access-block")))

\* lines 103-107: s3.send(deletePABCmd).then(() => res).catch(...)
DeletePABChain(i, bucketName, r, out) ==
    IF out.ok THEN Resolved(r)
    ELSE Rejected(Wrapped(DeletePABMessage(bucketName),
                          GatewayError(i, "remove-public-access-block")))

\* DeleteBucketChain with the error wrapped like the other operations' errors
DeleteBucketChain_wrapping(i, out) ==
    IF out.ok THEN Resolved(GatewayOutput(i, "delete-bucket"))
    ELSE Rejected(Wrapped(<<"Could not delete bucket.">>, GatewayError(i, "delete-bucket")))

\* line 112: return this.s3.send(cmd)
DeleteBucketChain(i, out) ==
    IF out.ok THEN Resolved(GatewayOutput(i, "delete-bucket"))
    ELSE Rejected(GatewayError(i, "delete-bucket"))

\* DoneChain with the transfer error caught and returned
DoneChain_swallowing(i, out) ==
    IF out.ok THEN Resolved(GatewayOutput(i, "start-upload"))
    ELSE Resolved(GatewayError(i, "start-upload"))

\* line 128: uploadClient.done(), awaited with no catch
DoneChain(i, out) ==
    IF out.ok THEN Resolved(GatewayOutput(i, "start-upload"))
    ELSE Rejected(GatewayError(i, "start-upload"))

\* PutACLChain with a message that leaves out the object key
PutACLChain_noKey(i, cfg, r, out) ==
    IF out.ok THEN Resolved(r)
    ELSE Rejected(Wrapped(<<"Could not set access level in bucket: '", cfg.bucket, "'">>,
                          GatewayError(i, "set-object-acl")))

\* lines 131-135: s3.send(putACLCmd).then(() => res).catch(...)
PutACLChain(i, cfg, r, out) ==
    IF out.ok THEN Resolved(r)
    ELSE Rejected(Wrapped(PutACLMessage(cfg.key, cfg.bucket),
                          GatewayError(i, "set-object-acl")))

\* lines 145-149: s3.send(getObjCmd).then((res) => res.Body.transformToByteArray()).catch(...)
DownloadChain(i, cfg, out) ==
    IF out.ok THEN Resolved(transformToByteArray(out.data))
    ELSE Rejected(Wrapped(GetObjectMessage(cfg.key, cfg.bucket),
                          GatewayError(i, "get-object")))

\* DeleteThen returning what has been fetched so far instead of following `bytes`
DeleteThen_notFollowing(i, out, b) ==
    IF ~out.ok THEN Rejected(GatewayError(i, "delete-object"))
    ELSE IF UnexpectedStatus(out.status) THEN Rejected(StatusError(out.status))
    ELSE IF b.state = "pending" THEN Resolved(transformToByteArray(0))
    ELSE b

\* lines 163-168: the then callback of the delete-object request; returning
\* `bytes` makes the chain follow that promise (pending while it is pending)
DeleteThen(i, out, b) ==
    IF ~out.ok THEN Rejected(GatewayError(i, "delete-object"))
    ELSE IF UnexpectedStatus(out.status) THEN Rejected(StatusError(out.status))
    ELSE b

\* DeleteCatch returning the payload instead of rejecting with it
DeleteCatch_returning(cfg, p) ==
    IF p.state = "rejected"
    THEN Resolved(Wrapped(DeleteObjectMessage(cfg.key, cfg.bucket), p.value))
    ELSE p

\* lines 169-171: .catch((e) => Promise.reject({message: ..., error: e}))
DeleteCatch(cfg, p) ==
    IF p.state = "rejected"
    THEN Rejected(Wrapped(DeleteObjectMessage(cfg.key, cfg.bucket), p.value))
    ELSE p

\* lines 161-174: try { return await ... } catch(e) { return Promise.reject(...) }
DeleteTryCatch(p) ==
    IF p.state = "rejected"
    THEN Rejected(Wrapped(ErrorDeletingMessage(p.value), p.value))
    ELSE p

\* the promise delete returns, given what its chain has settled to
DeleteResult(cfg, p) == DeleteTryCatch(DeleteCatch(cfg, p))

\* ------------------------------------------------------- createBucket
\* lines 85-96: build the command and send it
createBucket(i, bucketName) ==
    /\ CanCall(i)
    /\ inv' = [inv EXCEPT ![i] = [Idle EXCEPT !.op = "createBucket", !.bucket = bucketName]]
    /\ reqs' = [reqs EXCEPT ![i] = Send(@, "create-bucket")]
    /\ pc' = [pc EXCEPT ![i] = "createBucket:96"]
    /\ promise' = [promise EXCEPT ![i] = Pending]
    /\ UNCHANGED <<store, res, bytes, unhandled, snap, interfered, config, uploadClient>>

\* lines 96-103: the create-bucket response arrives; on success the
\* remove-public-access-block request is sent
createBucket_created(i) ==
    /\ pc[i] = "createBucket:96"
    /\ \E out \in Gateway("create-bucket", store, 0) :
        LET p == CreateChain(i, out) IN
        /\ store' = out.store
        /\ IF p.state = "resolved"
           THEN /\ res' = [res EXCEPT ![i] = p.value]
                /\ reqs' = [reqs EXCEPT ![i] =
                        Send(Settle(@, "create-bucket", out), "remove-public-access-block")]
                /\ pc' = [pc EXCEPT ![i] = "createBucket:103"]
                /\ UNCHANGED promise
           ELSE /\ reqs' = [reqs EXCEPT ![i] = Settle(@, "create-bucket", out)]
                /\ promise' = [promise EXCEPT ![i] = p]
                /\ pc' = [pc EXCEPT ![i] = "done"]
                /\ UNCHANGED res
    /\ UNCHANGED <<inv, bytes, unhandled, snap, interfered, config, uploadClient>>

\* lines 103-107: the remove-public-access-block response arrives
createBucket_unblocked(i) ==
    /\ pc[i] = "createBucket:103"
    /\ \E out \in Gateway("remove-public-access-block", store, 0) :
        /\ store' = out.store
        /\ reqs' = [reqs EXCEPT ![i] = Settle(@, "remove-public-access-block", out)]
        /\ promise' = [promise EXCEPT ![i] = DeletePABChain(i, inv[i].bucket, res[i], out)]
    /\ pc' = [pc EXCEPT ![i] = "done"]
    /\ UNCHANGED <<inv, res, bytes, unhandled, snap, interfered, config, uploadClient>>

\* ------------------------------------------------------- deleteBucket
\* lines 110-112
deleteBucket(i, bucket) ==
    /\ CanCall(i)
    /\ inv' = [inv EXCEPT ![i] = [Idle EXCEPT !.op = "deleteBucket", !.bucket = bucket]]
    /\ reqs' = [reqs EXCEPT ![i] = Send(@, "delete-bucket")]
    /\ pc' = [pc EXCEPT ![i] = "deleteBucket:112"]
    /\ promise' = [promise EXCEPT ![i] = Pending]
    /\ UNCHANGED <<store, res, bytes, unhandled, snap, interfered, config, uploadClient>>

\* deleteBucket_deleted with the request sent again when it fails
deleteBucket_deleted_retrying(i) ==
    /\ pc[i] = "deleteBucket:112"
    /\ \E out \in Gateway("delete-bucket", store, 0) :
        /\ store' = out.store
        /\ IF out.ok
           THEN /\ reqs' = [reqs EXCEPT ![i] = Settle(@, "delete-bucket", out)]
                /\ promise' = [promise EXCEPT ![i] = DeleteBucketChain(i, out)]
                /\ pc' = [pc EXCEPT ![i] = "done"]
           ELSE /\ reqs' = [reqs EXCEPT ![i] = Send(Settle(@, "delete-bucket", out), "delete-bucket")]
                /\ UNCHANGED <<promise, pc>>
    /\ UNCHANGED <<inv, res, bytes, unhandled, snap, interfered, config, uploadClient>>

\* line 112: the delete-bucket response settles the returned promise
deleteBucket_deleted(i) ==
    /\ pc[i] = "deleteBucket:112"
    /\ \E out \in Gateway("delete-bucket", store, 0) :
        /\ store' = out.store
        /\ reqs' = [reqs EXCEPT ![i] = Settle(@, "delete-bucket", out)]
        /\ promise' = [promise EXCEPT ![i] = DeleteBucketChain(i, out)]
    /\ pc' = [pc EXCEPT ![i] = "done"]
    /\ UNCHANGED <<inv, res, bytes, unhandled, snap, interfered, config, uploadClient>>

\* ------------------------------------------------------------- upload
\* UploadParams passing the caller's option on with no default
UploadParams_noDefault(cfg) ==
    [Bucket |-> cfg.bucket, Key |-> cfg.key, Body |-> cfg.body,
     ServerSideEncryption |-> cfg.sse]

\* lines 118-123: the params the Upload is built with;
\* config.serverSideEncryption || "AES256"
UploadParams(cfg) ==
    [Bucket |-> cfg.bucket, Key |-> cfg.key, Body |-> cfg.body,
     ServerSideEncryption |-> IF cfg.sse = Undefined THEN "AES256" ELSE cfg.sse]

\* line 128: uploadClient.done() starts the transfer with the Upload's params
SendUpload(rs, params) ==
    Append(rs, [Request("start-upload") EXCEPT !.sse = params.ServerSideEncryption])

\* lines 115-128: the Upload is built, the progress listener registered and
\* the transfer started; without a callback the registration throws
upload(i, bucket, key, body, cb, sse) ==
    /\ CanCall(i)
    /\ inv' = [inv EXCEPT ![i] =
            [op |-> "upload", bucket |-> bucket, key |-> key, body |-> body, cb |-> cb,
             sse |-> sse]]
    /\ uploadClient' = [uploadClient EXCEPT ![i] = UploadParams(inv'[i])]
    /\ IF cb
       THEN /\ reqs' = [reqs EXCEPT ![i] = SendUpload(@, uploadClient'[i])]
            /\ pc' = [pc EXCEPT ![i] = "upload:128"]
            /\ promise' = [promise EXCEPT ![i] = Pending]
       ELSE /\ promise' = [promise EXCEPT ![i] = Rejected(ListenerTypeError)]
            /\ pc' = [pc EXCEPT ![i] = "done"]
            /\ UNCHANGED reqs
    /\ UNCHANGED <<store, res, bytes, unhandled, snap, interfered, config>>

\* lines 128-131: the transfer ends; on success the set-object-acl request is sent
upload_done(i) ==
    /\ pc[i] = "upload:128"
    /\ \E out \in Gateway("start-upload", store, inv[i].body) :
        LET p == DoneChain(i, out) IN
        /\ store' = out.store
        /\ interfered' = Interfere(i, store, out.store)
        /\ IF p.state = "resolved"
           THEN /\ res' = [res EXCEPT ![i] = p.value]
                /\ reqs' = [reqs EXCEPT ![i] =
                        Send(Settle(@, "start-upload", out), "set-object-acl")]
                /\ pc' = [pc EXCEPT ![i] = "upload:131"]
                /\ UNCHANGED promise
           ELSE /\ reqs' = [reqs EXCEPT ![i] = Settle(@, "start-upload", out)]
                /\ promise' = [promise EXCEPT ![i] = p]
                /\ pc' = [pc EXCEPT ![i] = "done"]
                /\ UNCHANGED res
    /\ UNCHANGED <<inv, bytes, unhandled, snap, config, uploadClient>>

\* lines 131-135: the set-object-acl response arrives
upload_aclSet(i) ==
    /\ pc[i] = "upload:131"
    /\ \E out \in Gateway("set-object-acl", store, 0) :
        /\ store' = out.store
        /\ reqs' = [reqs EXCEPT ![i] = Settle(@, "set-object-acl", out)]
        /\ promise' = [promise EXCEPT ![i] = PutACLChain(i, inv[i], res[i], out)]
    /\ pc' = [pc EXCEPT ![i] = "done"]
    /\ UNCHANGED <<inv, res, bytes, unhandled, snap, interfered, config, uploadClient>>

\* ----------------------------------------------------------- download
\* lines 138-145
download(i, bucket, key) ==
    /\ CanCall(i)
    /\ inv' = [inv EXCEPT ![i] = [Idle EXCEPT !.op = "download", !.bucket = bucket, !.key = key]]
    /\ reqs' = [reqs EXCEPT ![i] = Send(@, "get-object")]
    /\ pc' = [pc EXCEPT ![i] = "download:145"]
    /\ promise' = [promise EXCEPT ![i] = Pending]
    /\ UNCHANGED <<store, res, bytes, unhandled, snap, interfered, config, uploadClient>>

\* download_got with the client keeping downloaded bytes and serving them
\* when its own request fails
download_got_caching(i) ==
    /\ pc[i] = "download:145"
    /\ \E out \in Gateway("get-object", store, 0) :
        /\ store' = out.store
        /\ reqs' = [reqs EXCEPT ![i] = Settle(@, "get-object", out)]
        /\ promise' = [promise EXCEPT ![i] =
                IF ~out.ok /\ \E j \in Inv : promise[j].state = "resolved"
                                            /\ promise[j].value.type = "Uint8Array"
                THEN CHOOSE q \in {promise[j] : j \in Inv} :
                        q.state = "resolved" /\ q.value.type = "Uint8Array"
                ELSE DownloadChain(i, inv[i], out)]
    /\ pc' = [pc EXCEPT ![i] = "done"]
    /\ UNCHANGED <<inv, res, bytes, unhandled, snap, interfered, config, uploadClient>>

\* lines 145-149: the get-object response arrives
download_got(i) ==
    /\ pc[i] = "download:145"
    /\ \E out \in Gateway("get-object", store, 0) :
        /\ store' = out.store
        /\ reqs' = [reqs EXCEPT ![i] = Settle(@, "get-object", out)]
        /\ promise' = [promise EXCEPT ![i] = DownloadChain(i, inv[i], out)]
    /\ pc' = [pc EXCEPT ![i] = "done"]
    /\ UNCHANGED <<inv, res, bytes, unhandled, snap, interfered, config, uploadClient>>

\* ------------------------------------------------------------- delete
\* delete with the download awaited before anything else is sent
delete_awaitingDownload(i, bucket, key) ==
    /\ CanCall(i)
    /\ inv' = [inv EXCEPT ![i] = [Idle EXCEPT !.op = "delete", !.bucket = bucket, !.key = key]]
    /\ reqs' = [reqs EXCEPT ![i] = Send(@, "get-object")]
    /\ bytes' = [bytes EXCEPT ![i] = Pending]
    /\ pc' = [pc EXCEPT ![i] = "delete:158"]
    /\ promise' = [promise EXCEPT ![i] = Pending]
    /\ UNCHANGED <<store, res, unhandled, snap, interfered, config, uploadClient>>

\* lines 152-162: this.download(config) runs up to its await, which sends
\* get-object; then delete-object is sent and the chain is awaited
delete(i, bucket, key) ==
    /\ CanCall(i)
    /\ inv' = [inv EXCEPT ![i] = [Idle EXCEPT !.op = "delete", !.bucket = bucket, !.key = key]]
    /\ reqs' = [reqs EXCEPT ![i] = Send(Send(@, "get-object"), "delete-object")]
    /\ bytes' = [bytes EXCEPT ![i] = Pending]
    /\ pc' = [pc EXCEPT ![i] = "delete:162"]
    /\ promise' = [promise EXCEPT ![i] = Pending]
    /\ UNCHANGED <<store, res, unhandled, snap, interfered, config, uploadClient>>

\* lines 145-149 inside delete: the get-object response settles `bytes`; if
\* the then callback of line 167 already returned `bytes`, delete settles too
delete_downloaded(i) ==
    /\ inv[i].op = "delete"
    /\ IsPending(i, "get-object")
    /\ \E out \in Gateway("get-object", store, 0) :
        LET b == DownloadChain(i, inv[i], out) IN
        /\ store' = out.store
        /\ reqs' = [reqs EXCEPT ![i] = Settle(@, "get-object", out)]
        /\ bytes' = [bytes EXCEPT ![i] = b]
        /\ IF pc[i] = "delete:167"
           THEN /\ promise' = [promise EXCEPT ![i] = DeleteResult(inv[i], b)]
                /\ pc' = [pc EXCEPT ![i] = "done"]
                /\ UNCHANGED unhandled
           ELSE /\ unhandled' = [unhandled EXCEPT ![i] = (b.state = "rejected")]
                /\ UNCHANGED <<promise, pc>>
    /\ UNCHANGED <<inv, res, snap, interfered, config, uploadClient>>

\* lines 162-174: the delete-object response arrives
delete_deleted(i) ==
    /\ pc[i] = "delete:162"
    /\ \E out \in Gateway("delete-object", store, 0) :
        LET p == DeleteThen(i, out, bytes[i]) IN
        /\ store' = out.store
        /\ interfered' = Interfere(i, store, out.store)
        /\ snap' = [snap EXCEPT ![i] = IF out.ok THEN store.obj ELSE @]
        /\ reqs' = [reqs EXCEPT ![i] = Settle(@, "delete-object", out)]
        /\ IF p.state = "pending"
           THEN /\ pc' = [pc EXCEPT ![i] = "delete:167"]
                /\ UNCHANGED promise
           ELSE /\ promise' = [promise EXCEPT ![i] = DeleteResult(inv[i], p)]
                /\ pc' = [pc EXCEPT ![i] = "done"]
    /\ UNCHANGED <<inv, res, bytes, unhandled, config, uploadClient>>

\* ---------------------------------------------------------------- spec
Next ==
    \E i \in Inv :
        \/ \E b \in Buckets : createBucket(i, b)
        \/ createBucket_created(i)
        \/ createBucket_unblocked(i)
        \/ \E b \in Buckets : deleteBucket(i, b)
        \/ deleteBucket_deleted(i)
        \/ \E b \in Buckets, k \in Keys, body \in Bodies, cb \in BOOLEAN :
                upload(i, b, k, body, cb, Undefined)
        \/ upload_done(i)
        \/ upload_aclSet(i)
        \/ \E b \in Buckets, k \in Keys : download(i, b, k)
        \/ download_got(i)
        \/ \E b \in Buckets, k \in Keys : delete(i, b, k)
        \/ delete_downloaded(i)
        \/ delete_deleted(i)

Spec == Init /\ [][Next]_vars

\* The encryption option takes no part in any decision of the client, so Spec
\* leaves it out of every upload; SpecUpload runs the uploads alone, with
\* every value the option may take.
NextUpload ==
    \E i \in Inv :
        \/ \E b \in Buckets, k \in Keys, body \in Bodies, cb \in BOOLEAN,
              sse \in ServerSideEncryptionOptions \cup {Undefined} :
                upload(i, b, k, body, cb, sse)
        \/ upload_done(i)
        \/ upload_aclSet(i)

SpecUpload == Init /\ [][NextUpload]_vars

TypeOK ==
    /\ store \in StoreStates
    /\ \A i \in Inv :
        /\ inv[i].op \in Ops \cup {"idle"}
        /\ promise[i].state \in {"none", "pending", "resolved", "rejected"}
        /\ bytes[i].state \in {"none", "pending", "resolved", "rejected"}
        /\ \A n \in 1..Len(reqs[i]) : reqs[i][n].kind \in RequestKinds

\* ------------------------------------------------------------ helpers
Issued(i, kind) == \E n \in 1..Len(reqs[i]) : reqs[i][n].kind = kind
Failed(i, kind) ==
    \E n \in 1..Len(reqs[i]) : reqs[i][n].kind = kind /\ reqs[i][n].status = "err"
Count(i, kind) == Cardinality({n \in 1..Len(reqs[i]) : reqs[i][n].kind = kind})
Calls(op) == {i \in Inv : inv[i].op = op}

\* the request at position n of invocation i was issued after an earlier
\* request of kind `first` had been answered successfully
IssuedAfterSuccess(i, n, first) ==
    \E m \in 1..(n - 1) : reqs[i][m].kind = first /\ reqs[i][m].status = "ok"

\* the text s occurs in the message of payload p or of an error nested in it
RECURSIVE Mentions(_, _)
Mentions(p, s) ==
    \/ /\ "message" \in DOMAIN p
       /\ \E k \in 1..Len(p.message) : p.message[k] = s
    \/ /\ "error" \in DOMAIN p
       /\ Mentions(p.error, s)

\* the text s occurs in the message of payload p itself
Names(p, s) ==
    /\ "message" \in DOMAIN p
    /\ \E k \in 1..Len(p.message) : p.message[k] = s

\* ------------------------------------------------------------- claims

\* C1: createBucket resolves if and only if both create-bucket and
\* remove-public-access-block succeed, and then with the create-bucket
\* result; when create-bucket succeeds and remove-public-access-block fails
\* it rejects with a message containing the bucket name, it never issues a
\* delete-bucket request, and the bucket is still there unless a
\* deleteBucket invocation removed it.
C1_CreateBucketOutcome ==
    \A i \in Calls("createBucket") :
        /\ promise[i].state = "resolved" <=>
                Answered(i, "create-bucket") /\ Answered(i, "remove-public-access-block")
        /\ promise[i].state = "resolved" =>
                promise[i].value = GatewayOutput(i, "create-bucket")
        /\ Answered(i, "create-bucket") /\ Failed(i, "remove-public-access-block") =>
                /\ promise[i].state = "rejected"
                /\ Names(promise[i].value, inv[i].bucket)
                /\ (\A j \in Calls("deleteBucket") : ~Answered(j, "delete-bucket"))
                        => store.bucket # "absent"
        /\ ~Issued(i, "delete-bucket")

\* C1 witness: a bucket was created, the removal of its public access block
\* failed, createBucket rejected and the bucket exists.
C1_Witness ==
    \E i \in Calls("createBucket") :
        /\ Answered(i, "create-bucket")
        /\ Failed(i, "remove-public-access-block")
        /\ promise[i].state = "rejected"
        /\ store.bucket = "blocked"

\* C2: remove-public-access-block is issued only after create-bucket was
\* answered successfully; if create-bucket fails, createBucket rejects and
\* never issues remove-public-access-block.
C2_BlockRemovalAfterCreate ==
    \A i \in Calls("createBucket") :
        /\ \A n \in 1..Len(reqs[i]) :
                reqs[i][n].kind = "remove-public-access-block"
                    => IssuedAfterSuccess(i, n, "create-bucket")
        /\ Failed(i, "create-bucket") =>
                /\ promise[i].state = "rejected"
                /\ ~Issued(i, "remove-public-access-block")

\* C2 witness: create-bucket failed and createBucket has rejected.
C2_Witness ==
    \E i \in Calls("createBucket") :
        /\ Failed(i, "create-bucket")
        /\ pc[i] = "done"
        /\ promise[i].state = "rejected"

\* C3: if the transfer fails, upload rejects with the transfer's own error
\* and never issues set-object-acl; set-object-acl is issued only after the
\* transfer was answered successfully.
C3_AclAfterTransfer ==
    \A i \in Calls("upload") :
        /\ Failed(i, "start-upload") =>
                /\ promise[i] = Rejected(GatewayError(i, "start-upload"))
                /\ ~Issued(i, "set-object-acl")
        /\ \A n \in 1..Len(reqs[i]) :
                reqs[i][n].kind = "set-object-acl"
                    => IssuedAfterSuccess(i, n, "start-upload")

\* C3 witness: a transfer failed and upload has rejected.
C3_Witness ==
    \E i \in Calls("upload") :
        /\ Failed(i, "start-upload")
        /\ pc[i] = "done"
        /\ promise[i].state = "rejected"

C5_DeleteRejectsNon204 ==
    \A i \in Calls("delete") :
        \A n \in 1..Len(reqs[i]) :
            reqs[i][n].kind = "delete-object" /\ reqs[i][n].status = "ok" =>
                /\ reqs[i][n].code # NoContent =>
                        /\ promise[i].state = "rejected"
                        /\ Mentions(promise[i].value, ToString(reqs[i][n].code))
                /\ promise[i].state = "resolved" => reqs[i][n].code = NoContent

\* C5 witness: the gateway answered delete-object with 200 and delete rejected.
C5_Witness ==
    \E i \in Calls("delete") :
        \E n \in 1..Len(reqs[i]) :
            /\ reqs[i][n].kind = "delete-object"
            /\ reqs[i][n].status = "ok"
            /\ reqs[i][n].code = 200
            /\ promise[i].state = "rejected"

\* C6 as stated: whenever delete resolves, the bytes it returns are the
\* content the store held for the reference immediately before the
\* delete-object request took effect.
C6_ReturnsContentBeforeDeletion ==
    \A i \in Calls("delete") :
        promise[i].state = "resolved" => promise[i].value.data = snap[i]

\* C6 amended: whenever delete resolves, the bytes it returns are the content
\* the store held for the reference when the gateway processed the
\* invocation's get-object request; they are the content held immediately
\* before the deletion took effect whenever no other request changed the
\* object between the processing of the invocation's get-object and
\* delete-object requests, in whichever order the two were processed.
C6_ReturnsFetchedContent ==
    \A i \in Calls("delete") :
        promise[i].state = "resolved" =>
            /\ \E n \in 1..Len(reqs[i]) :
                /\ reqs[i][n].kind = "get-object"
                /\ reqs[i][n].status = "ok"
                /\ promise[i].value.type = "Uint8Array"
                /\ promise[i].value.data = reqs[i][n].data
            /\ ~interfered[i] => promise[i].value.data = snap[i]

\* C6 witness: the round trip; an upload of B followed by a delete that
\* nothing interfered with and that resolved with B.
C6_Witness ==
    \E j \in Calls("upload"), i \in Calls("delete") :
        /\ j < i
        /\ Answered(j, "start-upload")
        /\ promise[i].state = "resolved"
        /\ ~interfered[i]
        /\ promise[i].value.data = inv[j].body
        /\ snap[i] = inv[j].body

\* C7 as stated: whenever the gateway rejects a request of an operation, the
\* operation ends with a rejected promise whose payload has a message naming
\* the bucket or key involved and whose error field is the gateway's error.
C7_UniformWrapping ==
    \A i \in Inv :
        \A n \in 1..Len(reqs[i]) :
            reqs[i][n].status = "err" /\ pc[i] = "done" =>
                /\ promise[i].state = "rejected"
                /\ Names(promise[i].value, inv[i].bucket)
                        \/ Names(promise[i].value, inv[i].key)
                /\ "error" \in DOMAIN promise[i].value
                /\ promise[i].value.error = GatewayError(i, reqs[i][n].kind)

\* C8 as stated: at every moment at most one gateway request of an
\* invocation is outstanding.
C8_NoFanOut ==
    \A i \in Inv :
        Cardinality({n \in 1..Len(reqs[i]) : reqs[i][n].status = "pending"}) <= 1

\* C9: within one invocation every kind of gateway request is issued at most
\* once, also after the request has failed.
C9_NoRetry ==
    \A i \in Inv : \A kind \in RequestKinds : Count(i, kind) <= 1

\* C9 witness: an operation has ended after one of its requests failed, and
\* that request was issued once.
C9_Witness ==
    \E i \in Inv : \E kind \in RequestKinds :
        /\ pc[i] = "done"
        /\ Failed(i, kind)
        /\ Count(i, kind) = 1

\* C10: deleteBucket issues exactly one request, a delete-bucket, and its
\* promise settles to exactly the gateway's outcome: the gateway's output
\* when it succeeds, the gateway's error itself when it fails.
C10_DeleteBucketPassThrough ==
    \A i \in Calls("deleteBucket") :
        /\ Len(reqs[i]) = 1
        /\ reqs[i][1].kind = "delete-bucket"
        /\ reqs[i][1].status = "pending" => promise[i].state = "pending"
        /\ reqs[i][1].status = "ok" =>
                promise[i] = Resolved(GatewayOutput(i, "delete-bucket"))
        /\ reqs[i][1].status = "err" =>
                promise[i] = Rejected(GatewayError(i, "delete-bucket"))

\* C10 witness: the gateway rejected delete-bucket and deleteBucket rejected
\* with that error.
C10_Witness ==
    \E i \in Calls("deleteBucket") :
        /\ Failed(i, "delete-bucket")
        /\ promise[i] = Rejected(GatewayError(i, "delete-bucket"))

\* C11: the encryption mode the transfer is given is the fixed default
\* "AES256" when the caller's config has no serverSideEncryption, and the
\* caller's value when it has one of the three allowed values; the transfer
\* request the gateway receives carries that mode.
C11_EncryptionMode ==
    \A i \in Calls("upload") :
        LET mode == uploadClient[i].ServerSideEncryption IN
        /\ inv[i].sse = Undefined => mode = "AES256"
        /\ inv[i].sse \in ServerSideEncryptionOptions => mode = inv[i].sse
        /\ \A n \in 1..Len(reqs[i]) :
                reqs[i][n].kind = "start-upload" => reqs[i][n].sse = mode

\* C11 witness: one transfer started without an encryption option and
\* received with "AES256", another started with "aws:kms" and received with it.
C11_Witness ==
    \E i, j \in Calls("upload") :
        /\ inv[i].sse = Undefined
        /\ Answered(i, "start-upload")
        /\ reqs[i][1].sse = "AES256"
        /\ inv[j].sse = "aws:kms"
        /\ Issued(j, "start-upload")
        /\ reqs[j][1].sse = "aws:kms"

\* the error e is payload p or is nested in p's error fields
RECURSIVE Contains(_, _)
Contains(p, e) ==
    \/ p = e
    \/ /\ "error" \in DOMAIN p
       /\ Contains(p.error, e)

\* the delete-object request of invocation i was answered with status 204
Deleted204(i) ==
    \E n \in 1..Len(reqs[i]) :
        /\ reqs[i][n].kind = "delete-object"
        /\ reqs[i][n].status = "ok"
        /\ reqs[i][n].code = NoContent

\* C12: every invocation of delete issues get-object first and delete-object
\* second, at once: there is no moment at which get-object has been issued
\* and delete-object has not, so delete-object is issued whether get-object
\* later succeeds, fails or stays pending.
C12_DeleteIssuesBoth ==
    \A i \in Calls("delete") :
        /\ Len(reqs[i]) = 2
        /\ reqs[i][1].kind = "get-object"
        /\ reqs[i][2].kind = "delete-object"

\* C12 witness: delete-object was answered while get-object was still pending.
C12_Witness ==
    \E i \in Calls("delete") :
        /\ IsPending(i, "get-object")
        /\ Answered(i, "delete-object")

\* C13 as stated: every failure of get-object and every failure of
\* delete-object of a delete invocation is carried by the rejection delete
\* ends with, also when both fail.
C13_BothFailuresSurfaced ==
    \A i \in Calls("delete") :
        pc[i] = "done" =>
            /\ Failed(i, "get-object") =>
                    /\ promise[i].state = "rejected"
                    /\ Contains(promise[i].value, GatewayError(i, "get-object"))
            /\ Failed(i, "delete-object") =>
                    /\ promise[i].state = "rejected"
                    /\ Contains(promise[i].value, GatewayError(i, "delete-object"))

\* C14: delete resolves only when delete-object returned 204 and its own
\* download succeeded, and then with that download's byte array; when
\* delete-object returned 204 and the download failed, delete rejects
\* although the deletion took effect (the object is gone unless an upload of
\* another invocation stored it again).
C14_ResolvesWithDownloadedBytes ==
    \A i \in Calls("delete") :
        /\ promise[i].state = "resolved" =>
                /\ Deleted204(i)
                /\ Answered(i, "get-object")
                /\ bytes[i].state = "resolved"
                /\ promise[i].value = bytes[i].value
                /\ promise[i].value.type = "Uint8Array"
                /\ promise[i].value.data \in Bodies
        /\ Deleted204(i) /\ Failed(i, "get-object") =>
                /\ promise[i].state = "rejected"
                /\ snap[i] # -1
                /\ (\A j \in Inv \ {i} : ~Answered(j, "start-upload")) => store.obj = 0

\* C14 witness: delete-object returned 204 and removed a stored object, the
\* download failed and delete rejected: the content is lost.
C14_Witness ==
    \E i \in Calls("delete") :
        /\ Deleted204(i)
        /\ Failed(i, "get-object")
        /\ promise[i].state = "rejected"
        /\ snap[i] \in Bodies
        /\ store.obj = 0

\* the response recorded for request r, as the promise chains read it
ResponseOf(r) == [ok |-> r.status = "ok", status |-> r.code, data |-> r.data]

\* what the promise of invocation i must be, computed from its arguments and
\* the responses to its own requests alone
OwnOutcome(i) ==
    LET cfg == inv[i]
        rs == reqs[i]
        waiting(n) == rs[n].status = "pending"
    IN  CASE cfg.op = "idle" -> NoPromise
          [] cfg.op = "createBucket" ->
                IF waiting(1) THEN Pending
                ELSE LET p == CreateChain(i, ResponseOf(rs[1])) IN
                     IF p.state = "rejected" THEN p
                     ELSE IF waiting(2) THEN Pending
                     ELSE DeletePABChain(i, cfg.bucket, p.value, ResponseOf(rs[2]))
          [] cfg.op = "deleteBucket" ->
                IF waiting(1) THEN Pending ELSE DeleteBucketChain(i, ResponseOf(rs[1]))
          [] cfg.op = "upload" ->
                IF ~cfg.cb THEN Rejected(ListenerTypeError)
                ELSE IF waiting(1) THEN Pending
                ELSE LET p == DoneChain(i, ResponseOf(rs[1])) IN
                     IF p.state = "rejected" THEN p
                     ELSE IF waiting(2) THEN Pending
                     ELSE PutACLChain(i, cfg, p.value, ResponseOf(rs[2]))
          [] cfg.op = "download" ->
                IF waiting(1) THEN Pending ELSE DownloadChain(i, cfg, ResponseOf(rs[1]))
          [] cfg.op = "delete" ->
                IF waiting(2) THEN Pending
                ELSE LET b == IF waiting(1) THEN Pending
                              ELSE DownloadChain(i, cfg, ResponseOf(rs[1]))
                         p == DeleteThen(i, ResponseOf(rs[2]), b)
                     IN  IF p.state = "pending" THEN Pending ELSE DeleteResult(cfg, p)

\* C15: whatever operations have run and however their steps interleaved,
\* the client's config is the one given to the constructor, and the promise
\* of every invocation is determined by its own arguments and the responses
\* to its own gateway requests (nothing another invocation fetched or left
\* on the client enters it).
C15_NoSharedState ==
    /\ config = S3Config
    /\ \A i \in Inv : promise[i] = OwnOutcome(i)

\* C15 witness: a delete is in flight, with one of its requests answered,
\* while a download called after it has already resolved.
C15_Witness ==
    \E i \in Calls("delete"), j \in Calls("download") :
        /\ i < j
        /\ IsPending(i, "get-object")
        /\ Answered(i, "delete-object")
        /\ promise[j].state = "resolved"
        /\ config = S3Config

====
